---- MODULE Spec2Model ----
(***************************************************************************)
(* A model of youlog (src/src/lib.rs): a logger for the `log` facade that  *)
(* dispatches records to user functions, with per-module level filters and *)
(* a RUST_LOG-style environment parser.                                    *)
(*                                                                         *)
(* Strings are sequences of one-character strings, so that starts_with,    *)
(* split, trim and parse are computed on characters as the code does.      *)
(* An Option is a sequence of length 0 (None) or 1 (Some).                 *)
(***************************************************************************)
EXTENDS Integers, Sequences, FiniteSets, TLC

VARIABLES
    youlog,     \* Option<Youlog>: the logger value under construction
    logger,     \* Option<Youlog>: the process-wide logger of the log crate (set once)
    max_level,  \* the log crate's process-wide maximum level (log::max_level())
    calls,      \* the user functions invoked by the last log / facade call, in order
    last,       \* the last operation: its name, its argument, what it returned or printed
    ncalls      \* number of builder calls made so far (bounded by MaxCalls)

vars == <<youlog, logger, max_level, calls, last, ncalls>>

----------------------------------------------------------------------------
\* Bounds of the model

\* builder calls (global_level, level, log_fn, raw_fn) in one run
MaxCalls == 2
\* directives in one generated environment string
MaxDirectives == 3

----------------------------------------------------------------------------
\* log::LevelFilter as usize; log::Level is Error..Trace

Off == 0
Error == 1
Warn == 2
Info == 3
Debug == 4
Trace == 5

LevelFilters == Off..Trace
Levels == Error..Trace

\* LevelFilter::max()
LevelFilterMax == Trace

None == <<>>
Some(x) == <<x>>
Unwrap(o) == o[1]

----------------------------------------------------------------------------
\* Strings

S_t == <<"t">>
S_o == <<"o">>
S_ts == <<"t", ":", ":", "s">>
S_tsd == <<"t", ":", ":", "s", ":", ":", "d">>
S_tx == <<"t", "x">>
S_z == <<"z">>

\* module prefixes given to level()
FilterNames == {S_t, S_ts, S_o}
\* levels given to level(), and to global_level() along with it
FilterLevels == {Off, Info, Debug}
\* targets of records and of enabled() probes
Targets == {S_t, S_ts, S_tsd, S_tx, S_o, S_z}
\* targets of the records that are logged
RecordTargets == {S_t}
\* user functions given to log_fn / raw_fn; empty_log is the default of new()
UserFns == {"f", "g"}
empty_log == "empty_log"

Records == [target : RecordTargets, level : Levels]

\* str::starts_with
StartsWithExact(s, p) ==
    s = p

StartsWith(s, p) ==
    /\ Len(p) <= Len(s)
    /\ SubSeq(s, 1, Len(p)) = p

----------------------------------------------------------------------------
\* Youlog

\* Youlog::new
New ==
    [ max_level |-> Trace,
      filters   |-> <<>>,
      raw_fn    |-> empty_log,
      info_fn   |-> empty_log,
      warn_fn   |-> empty_log,
      error_fn  |-> empty_log,
      debug_fn  |-> empty_log,
      trace_fn  |-> empty_log ]

RECURSIVE EnabledScan(_, _, _, _)
\* the loop of enabled: filters[i], filters[i-1], ..., filters[1]
EnabledScan(filters, i, target, level) ==
    IF i = 0 THEN FALSE
    ELSE IF ~StartsWith(target, filters[i].name)
         THEN EnabledScan(filters, i - 1, target, level)
         ELSE level <= filters[i].level

AnyFilterMatches(self, target) ==
    \E i \in 1..Len(self.filters) : StartsWith(target, self.filters[i].name)

\* enabled falling back to the global level when no filter matches
EnabledGlobalFallback(self, target, level) ==
    IF AnyFilterMatches(self, target)
    THEN EnabledScan(self.filters, Len(self.filters), target, level)
    ELSE level <= self.max_level

RECURSIVE EnabledScanEq(_, _, _, _)
EnabledScanEq(filters, i, target, level) ==
    IF i = 0 THEN FALSE
    ELSE IF ~StartsWith(target, filters[i].name)
         THEN EnabledScanEq(filters, i - 1, target, level)
         ELSE level = filters[i].level

\* enabled comparing the level for equality with the filter's
EnabledExactLevel(self, target, level) ==
    EnabledScanEq(self.filters, Len(self.filters), target, level)

\* <Youlog as log::Log>::enabled
Enabled(self, target, level) ==
    EnabledScan(self.filters, Len(self.filters), target, level)

\* the function held by the slot that log matches to a record's level
LevelFn(self, level) ==
    CASE level = Error -> self.error_fn
      [] level = Warn  -> self.warn_fn
      [] level = Info  -> self.info_fn
      [] level = Debug -> self.debug_fn
      [] level = Trace -> self.trace_fn

Call(fn, record) == [fn |-> fn, record |-> record]

\* log calling the level's function before the raw function
LogLevelFirst(self, record) ==
    << Call(LevelFn(self, record.level), record), Call(self.raw_fn, record) >>

\* <Youlog as log::Log>::log: the calls it makes, in order
Log(self, record) ==
    << Call(self.raw_fn, record), Call(LevelFn(self, record.level), record) >>

\* Youlog::global_level
GlobalLevel(self, level) ==
    [self EXCEPT !.max_level = level]

HasFilter(self, name) ==
    \E i \in 1..Len(self.filters) : self.filters[i].name = name

\* level pushing the filter without looking for the name
LevelAlwaysPush(self, name, level) ==
    [self EXCEPT !.filters = Append(@, [name |-> name, level |-> level])]

\* Youlog::level
Level(self, name, level) ==
    IF HasFilter(self, name)
    THEN self
    ELSE [self EXCEPT !.filters = Append(@, [name |-> name, level |-> level])]

\* Youlog::log_fn
LogFn(self, level, function) ==
    CASE level = Off   -> self
      [] level = Error -> [self EXCEPT !.error_fn = function]
      [] level = Warn  -> [self EXCEPT !.warn_fn = function]
      [] level = Info  -> [self EXCEPT !.info_fn = function]
      [] level = Debug -> [self EXCEPT !.debug_fn = function]
      [] level = Trace -> [self EXCEPT !.trace_fn = function]

\* Youlog::raw_fn
RawFn(self, function) ==
    [self EXCEPT !.raw_fn = function]

\* the orders of the elements of a sequence
Perms(s) ==
    { [i \in 1..Len(s) |-> s[p[i]]] :
        p \in { q \in [1..Len(s) -> 1..Len(s)] :
                  \A i, j \in 1..Len(s) : i # j => q[i] # q[j] } }

\* init leaving the filters in insertion order
UnsortedByLen(filters) ==
    { filters }

\* sort_unstable_by on the names' lengths: ascending, equal lengths in any order
SortUnstableByLen(filters) ==
    { s \in Perms(filters) :
        \A i \in 1..(Len(s) - 1) : Len(s[i].name) <= Len(s[i + 1].name) }

----------------------------------------------------------------------------
\* Environment directives

UpperCase ==
    << "A", "B", "C", "D", "E", "F", "G", "H", "I", "J", "K", "L", "M",
       "N", "O", "P", "Q", "R", "S", "T", "U", "V", "W", "X", "Y", "Z" >>

LowerCase ==
    << "a", "b", "c", "d", "e", "f", "g", "h", "i", "j", "k", "l", "m",
       "n", "o", "p", "q", "r", "s", "t", "u", "v", "w", "x", "y", "z" >>

\* the names LevelFilter::from_str compares with, ignoring ASCII case, Off first
LogLevelNames ==
    << <<"o", "f", "f">>,
       <<"e", "r", "r", "o", "r">>,
       <<"w", "a", "r", "n">>,
       <<"i", "n", "f", "o">>,
       <<"d", "e", "b", "u", "g">>,
       <<"t", "r", "a", "c", "e">> >>

\* u8::to_ascii_lowercase, as a table
LowerOf == [i \in 1..26 |-> LowerCase[i]]

AsciiLower(c) ==
    LET upper == { i \in 1..26 : UpperCase[i] = c }
    IN  IF upper = {} THEN c ELSE LowerOf[CHOOSE i \in upper : TRUE]

AsciiUpper(c) ==
    LET lower == { i \in 1..26 : LowerCase[i] = c }
    IN  IF lower = {} THEN c ELSE UpperCase[CHOOSE i \in lower : TRUE]

ToLower(s) == [i \in 1..Len(s) |-> AsciiLower(s[i])]
ToUpper(s) == [i \in 1..Len(s) |-> AsciiUpper(s[i])]

\* str::parse::<LevelFilter>: Some(level) or None for Err
ParseLevelFilter(s) ==
    LET lower == ToLower(s)
        found == { p \in 1..6 : LogLevelNames[p] = lower }
    IN  IF found = {} THEN None ELSE Some((CHOOSE p \in found : TRUE) - 1)

RECURSIVE Split(_, _)
\* str::split(c), collected: one more item than there are separators
Split(s, c) ==
    LET at == { i \in 1..Len(s) : s[i] = c }
    IN  IF at = {} THEN << s >>
        ELSE LET k == CHOOSE i \in at : \A j \in at : i <= j
             IN  << SubSeq(s, 1, k - 1) >> \o Split(SubSeq(s, k + 1, Len(s)), c)

IsWhitespace(c) == c = " "

RECURSIVE TrimStart(_)
TrimStart(s) ==
    IF Len(s) > 0 /\ IsWhitespace(s[1]) THEN TrimStart(Tail(s)) ELSE s

RECURSIVE TrimEnd(_)
TrimEnd(s) ==
    IF Len(s) > 0 /\ IsWhitespace(s[Len(s)])
    THEN TrimEnd(SubSeq(s, 1, Len(s) - 1))
    ELSE s

\* str::trim
Trim(s) == TrimEnd(TrimStart(s))

\* one directive, registering an unparseable level at the most verbose level
DirectiveKeepInvalid(self, s) ==
    LET parts == Split(s, "=")
        name  == parts[1]
    IN  IF Len(s) = 0 THEN self
        ELSE IF Len(parts) = 1
             THEN IF ParseLevelFilter(name) # None
                  THEN GlobalLevel(self, Unwrap(ParseLevelFilter(name)))
                  ELSE Level(self, name, LevelFilterMax)
        ELSE IF Len(parts) = 2
             THEN IF ParseLevelFilter(Trim(parts[2])) # None
                  THEN Level(self, name, Unwrap(ParseLevelFilter(Trim(parts[2]))))
                  ELSE Level(self, name, LevelFilterMax)
        ELSE self

\* the body of the loop of new_with_env, for one trimmed directive s
Directive(self, s) ==
    LET parts == Split(s, "=")
        name  == parts[1]
    IN  IF Len(s) = 0 THEN self
        ELSE IF Len(parts) = 1
             THEN IF ParseLevelFilter(name) # None
                  THEN GlobalLevel(self, Unwrap(ParseLevelFilter(name)))
                  ELSE Level(self, name, LevelFilterMax)
        ELSE IF Len(parts) = 2
             THEN IF Len(Trim(parts[2])) = 0
                  THEN Level(self, name, LevelFilterMax)
                  ELSE IF ParseLevelFilter(Trim(parts[2])) # None
                       THEN Level(self, name, Unwrap(ParseLevelFilter(Trim(parts[2]))))
                       ELSE self
        ELSE self

RECURSIVE Directives(_, _)
\* the loop of new_with_env over the directives, left to right
Directives(self, ss) ==
    IF Len(ss) = 0 THEN self
    ELSE Directives(Directive(self, Trim(Head(ss))), Tail(ss))

\* new_with_env reading the whole value, the part after '/' included
NewWithEnvKeepSuffix(value) ==
    IF value = None THEN New
    ELSE Directives(New, Split(Unwrap(value), ","))

\* Youlog::new_with_env, given the variable's value: None when it is unset
NewWithEnv(value) ==
    IF value = None THEN New
    ELSE Directives(New, Split(Split(Unwrap(value), "/")[1], ","))

----------------------------------------------------------------------------
\* The values the environment variable is given: written from directives of the
\* shapes new_with_env tells apart (level / name / name= / name=level, a level
\* that is no level, more than one '='), joined with ',' and optionally
\* followed by '/' and a suffix.

S_test == <<"t", "e", "s", "t">>
S_other == <<"o", "t", "h", "e", "r">>
S_bleh == <<"b", "l", "e", "h">>
\* text that is no level name
S_notalevel == <<"z", "z">>
\* what follows the '/' of a value that has one
S_suffix == <<",", "z", "=", "o", "f", "f">>

Dir(kind, name, level, style) ==
    [kind |-> kind, name |-> name, level |-> level, style |-> style]

\* style: "plain", "padded" (whitespace around the directive and around the
\* level) or "upper" (the level in upper case)
DirectiveForms ==
    { Dir("level", <<>>, Debug, "plain"),
      Dir("level", <<>>, Error, "padded"),
      Dir("name", S_t, Trace, "plain"),
      Dir("name=", S_o, Trace, "padded"),
      Dir("name=level", S_t, Info, "plain"),
      Dir("name=level", S_t, Debug, "upper"),
      Dir("name=level", S_ts, Warn, "padded"),
      Dir("name=invalid", S_t, Trace, "plain"),
      Dir("name=level=", S_o, Info, "plain"),
      Dir("empty", <<>>, Trace, "padded") }

\* "debug,test=info,other=debug,bleh=error"
TestEnvDirectives ==
    << Dir("level", <<>>, Debug, "plain"),
       Dir("name=level", S_test, Info, "plain"),
       Dir("name=level", S_other, Debug, "plain"),
       Dir("name=level", S_bleh, Error, "plain") >>

LevelText(d) ==
    LET text == LogLevelNames[d.level + 1]
    IN  CASE d.style = "plain"  -> text
          [] d.style = "upper"  -> ToUpper(text)
          [] d.style = "padded" -> <<" ">> \o text \o <<" ">>

DirectiveText(d) ==
    LET body ==
            CASE d.kind = "level"        -> LevelText(d)
              [] d.kind = "name"         -> d.name
              [] d.kind = "name="        -> d.name \o <<"=">>
              [] d.kind = "name=level"   -> d.name \o <<"=">> \o LevelText(d)
              [] d.kind = "name=invalid" -> d.name \o <<"=">> \o S_notalevel
              [] d.kind = "name=level="  ->
                     d.name \o <<"=">> \o LevelText(d) \o <<"=">> \o LevelText(d)
              [] d.kind = "empty"        -> <<>>
    IN  IF d.style = "padded" THEN <<" ">> \o body \o <<" ">> ELSE body

RECURSIVE Join(_)
Join(ds) ==
    IF Len(ds) = 0 THEN <<>>
    ELSE IF Len(ds) = 1 THEN DirectiveText(ds[1])
    ELSE DirectiveText(ds[1]) \o <<",">> \o Join(Tail(ds))

\* an input: the directives the value is written from, and whether a '/' and a
\* suffix follow them
EnvValue(in) ==
    Join(in.directives) \o (IF in.suffix THEN <<"/">> \o S_suffix ELSE <<>>)

EnvInput(ds, suffix) == [directives |-> ds, suffix |-> suffix]

DirectiveLists ==
    UNION { [1..n -> DirectiveForms] : n \in 0..MaxDirectives }

\* the settings of the variable: unset, or set to a generated value
EnvInputs ==
    { None }
    \cup { Some(EnvInput(ds, sfx)) : ds \in DirectiveLists, sfx \in BOOLEAN }
    \cup { Some(EnvInput(TestEnvDirectives, FALSE)) }

\* a value with the same module twice: "t=info,t=debug"
EnvTwice ==
    Some(EnvInput(<< Dir("name=level", S_t, Info, "plain"),
                     Dir("name=level", S_t, Debug, "plain") >>, FALSE))

\* a value that is a bare module name: "o"
EnvBareName ==
    Some(EnvInput(<< Dir("name", S_o, Trace, "plain") >>, FALSE))

\* std::env::var for the input
EnvVar(in) ==
    IF in = None THEN None ELSE Some(EnvValue(Unwrap(in)))

----------------------------------------------------------------------------
\* Operations

Op(op, arg, ret) == [op |-> op, arg |-> arg, ret |-> ret]

\* the logger values that exist: the one under construction, the installed one
Instances ==
    (IF youlog # None THEN {"youlog"} ELSE {})
    \cup (IF logger # None THEN {"logger"} ELSE {})

Instance(which) ==
    IF which = "youlog" THEN Unwrap(youlog) ELSE Unwrap(logger)

Init ==
    /\ youlog = None
    /\ logger = None
    /\ max_level = Off
    /\ calls = <<>>
    /\ last = Op("start", None, "-")
    /\ ncalls = 0

NewCall ==
    /\ youlog = None
    /\ youlog' = Some(New)
    /\ calls' = <<>>
    /\ last' = Op("new", None, "-")
    /\ UNCHANGED <<logger, max_level, ncalls>>

NewWithEnvCall(inputs) ==
    /\ youlog = None
    /\ \E in \in inputs :
          /\ youlog' = Some(NewWithEnv(EnvVar(in)))
          /\ last' = Op("new_with_env", in, "-")
    /\ calls' = <<>>
    /\ UNCHANGED <<logger, max_level, ncalls>>

GlobalLevelCall(levels) ==
    /\ youlog # None
    /\ ncalls < MaxCalls
    /\ \E level \in levels :
          youlog' = Some(GlobalLevel(Unwrap(youlog), level))
    /\ calls' = <<>>
    /\ last' = Op("global_level", None, "-")
    /\ ncalls' = ncalls + 1
    /\ UNCHANGED <<logger, max_level>>

LevelStep(name, level) ==
    /\ youlog # None
    /\ ncalls < MaxCalls
    /\ youlog' = Some(Level(Unwrap(youlog), name, level))
    /\ calls' = <<>>
    /\ last' = Op("level", None,
                  IF HasFilter(Unwrap(youlog), name) THEN "warning" ELSE "-")
    /\ ncalls' = ncalls + 1
    /\ UNCHANGED <<logger, max_level>>

LevelCall ==
    \E name \in FilterNames, level \in FilterLevels : LevelStep(name, level)

LogFnCall ==
    /\ youlog # None
    /\ ncalls < MaxCalls
    /\ \E level \in LevelFilters, function \in UserFns :
          /\ youlog' = Some(LogFn(Unwrap(youlog), level, function))
          /\ last' = Op("log_fn", None, IF level = Off THEN "warning" ELSE "-")
    /\ calls' = <<>>
    /\ ncalls' = ncalls + 1
    /\ UNCHANGED <<logger, max_level>>

RawFnCall ==
    /\ youlog # None
    /\ ncalls < MaxCalls
    /\ \E function \in UserFns :
          youlog' = Some(RawFn(Unwrap(youlog), function))
    /\ calls' = <<>>
    /\ last' = Op("raw_fn", None, "-")
    /\ ncalls' = ncalls + 1
    /\ UNCHANGED <<logger, max_level>>

\* log::set_boxed_logger: the logger is set once; a later call is an error and
\* drops the value it was given
SetBoxedLogger(self) ==
    IF logger = None
    THEN /\ logger' = Some(self)
         /\ last' = Op("init", None, "Ok")
    ELSE /\ logger' = logger
         /\ last' = Op("init", None, "Err")

\* Youlog::init: sort the filters, set the maximum level, set the logger
InitCall ==
    /\ youlog # None
    /\ \E sorted \in SortUnstableByLen(Unwrap(youlog).filters) :
          LET self == [Unwrap(youlog) EXCEPT !.filters = sorted]
          IN  /\ max_level' = self.max_level
              /\ SetBoxedLogger(self)
    /\ youlog' = None
    /\ calls' = <<>>
    /\ UNCHANGED ncalls

\* what enabled returns on the logger values that exist, over the targets and levels
EnabledResults ==
    { Enabled(Instance(which), target, level) :
        which \in Instances, target \in Targets, level \in Levels }

\* a probe of enabled on one of the logger values, for some target and level
EnabledCall ==
    /\ \E ret \in EnabledResults :
          last' = Op("enabled", None, IF ret THEN "true" ELSE "false")
    /\ calls' = <<>>
    /\ UNCHANGED <<youlog, logger, max_level, ncalls>>

LogCall ==
    /\ \E which \in Instances, record \in Records :
          /\ calls' = Log(Instance(which), record)
          /\ last' = Op("log", [self |-> which, record |-> record], "-")
    /\ UNCHANGED <<youlog, logger, max_level, ncalls>>

\* a logging macro of the facade (info!, debug!, ...): the record reaches the
\* installed logger's log when its level is within the maximum level
MacroCall ==
    /\ \E record \in Records :
          /\ calls' = IF record.level <= max_level /\ logger # None
                      THEN Log(Unwrap(logger), record)
                      ELSE <<>>
          /\ last' = Op("macro", record, "-")
    /\ UNCHANGED <<youlog, logger, max_level, ncalls>>

\* the filter engine: building the filters, installing them, probing enabled
Next ==
    \/ NewCall
    \/ NewWithEnvCall({EnvTwice, EnvBareName})
    \/ GlobalLevelCall(FilterLevels)
    \/ LevelCall
    \/ InitCall
    \/ EnabledCall

Spec == Init /\ [][Next]_vars

\* the dispatcher: setting the functions, installing them, logging
NextDispatch ==
    \/ NewCall
    \/ NewWithEnvCall({EnvTwice})
    \/ GlobalLevelCall(LevelFilters)
    \/ LogFnCall
    \/ RawFnCall
    \/ InitCall
    \/ LogCall
    \/ MacroCall

SpecDispatch == Init /\ [][NextDispatch]_vars

\* the environment parser: every generated value of the variable
NextEnv ==
    \/ NewWithEnvCall(EnvInputs)
    \/ EnabledCall

SpecEnv == Init /\ [][NextEnv]_vars

----------------------------------------------------------------------------
\* Properties

\* p is a textual prefix of s
IsTextualPrefix(p, s) ==
    /\ Len(p) <= Len(s)
    /\ \A i \in 1..Len(p) : s[i] = p[i]

\* the filters of self whose prefix is a textual prefix of target
MatchingFilters(self, target) ==
    { i \in 1..Len(self.filters) : IsTextualPrefix(self.filters[i].name, target) }

\* the logger values that exist
Existing == { Instance(which) : which \in Instances }

\* the function registered for a level, by the field's name
RegisteredFn(self, level) ==
    LET field == [l \in Levels |->
                    << self.error_fn, self.warn_fn, self.info_fn,
                       self.debug_fn, self.trace_fn >>[l]]
    IN  field[level]

C2_LongestPrefixDecides ==
    logger # None =>
        \A target \in Targets, level \in Levels :
            LET self     == Unwrap(logger)
                matching == MatchingFilters(self, target)
            IN  matching # {} =>
                    \E i \in matching :
                        /\ \A j \in matching :
                              Len(self.filters[j].name) <= Len(self.filters[i].name)
                        /\ Enabled(self, target, level)
                              = (level <= self.filters[i].level)

\* the installed logger holds the filters t/Info and t::s/Debug, and a probe of
\* it (no other logger value exists) returned true
C2_Witness ==
    /\ last.op = "enabled"
    /\ last.ret = "true"
    /\ youlog = None
    /\ logger # None
    /\ Unwrap(logger).filters
          = << [name |-> S_t, level |-> Info], [name |-> S_ts, level |-> Debug] >>

\* C3: an init that returns an error leaves the installed logger and the
\* process-wide maximum level as they were.
C3_FailedInitChangesNothing ==
    [][ (last'.op = "init" /\ last'.ret = "Err")
            => (logger' = logger /\ max_level' = max_level) ]_vars

\* C4: log invokes the raw function once and first, then the function
\* registered for the record's level, and no other; it does so for every
\* record, whatever enabled says of it.
C4_RawThenLevelFn ==
    last.op = "log" =>
        LET self   == Instance(last.arg.self)
            record == last.arg.record
        IN  calls = << Call(self.raw_fn, record),
                       Call(RegisteredFn(self, record.level), record) >>

\* log was given an Info record that enabled refuses, and invoked the raw
\* function "f" and then the Info function "g"
C4_Witness ==
    /\ last.op = "log"
    /\ last.arg.record.level = Info
    /\ ~Enabled(Instance(last.arg.self), last.arg.record.target, Info)
    /\ calls = << Call("f", last.arg.record), Call("g", last.arg.record) >>

\* no two filters of a logger value share a prefix
UniquePrefixes(self) ==
    \A i, j \in 1..Len(self.filters) :
        i # j => self.filters[i].name # self.filters[j].name

\* "name=level" as a directive text
NameLevelText(name, level) ==
    name \o <<"=">> \o LogLevelNames[level + 1]

\* C5: no two filters share a prefix, and a level call for a prefix that is
\* registered, made directly or by the environment parser, leaves the logger
\* value (filters, global severity, functions) unchanged.
C5_DuplicateLevelIsNoOp ==
    /\ [](\A self \in Existing : UniquePrefixes(self))
    /\ [](\A name \in FilterNames, level \in FilterLevels :
            (youlog # None /\ HasFilter(Unwrap(youlog), name))
                => Directive(Unwrap(youlog), NameLevelText(name, level))
                      = Unwrap(youlog))
    /\ [][ (last'.op = "level" /\ youlog # None) =>
              \A name \in FilterNames, level \in FilterLevels :
                  (HasFilter(Unwrap(youlog), name) /\ LevelStep(name, level))
                      => youlog' = youlog ]_vars

\* a level call for a registered prefix was made (it printed its warning) on a
\* logger value that holds t/Info
C5_Witness ==
    /\ last.op = "level"
    /\ last.ret = "warning"
    /\ Unwrap(youlog).filters = << [name |-> S_t, level |-> Info] >>

\* C6: with a logger installed with global severity G and no filters, a record
\* emitted through a macro at a level <= G invokes the raw function and the
\* level's function, a record more verbose than G invokes nothing; and the
\* maximum level equals G after a successful init.
C6_MacroFollowsGlobal ==
    /\ (last.op = "macro" /\ logger # None /\ Unwrap(logger).filters = <<>>)
          => calls = IF last.arg.level <= Unwrap(logger).max_level
                     THEN << Call(Unwrap(logger).raw_fn, last.arg),
                             Call(RegisteredFn(Unwrap(logger), last.arg.level),
                                  last.arg) >>
                     ELSE <<>>
    /\ (last.op = "init" /\ last.ret = "Ok")
          => max_level = Unwrap(logger).max_level

\* C7: when one filter, P with ceiling L, is the only one, enabled(m, s) is
\* s <= L for every m that has P as a textual prefix and false for every
\* other m, whatever the global severity is.
C7_SingleFilter ==
    \A self \in Existing, target \in Targets, level \in Levels :
        Len(self.filters) = 1 =>
            Enabled(self, target, level)
                = (/\ IsTextualPrefix(self.filters[1].name, target)
                   /\ level <= self.filters[1].level)

\* a probe returned true on a logger value whose only filter is t/Info and
\* whose global severity is Off
C7_Witness ==
    /\ last.op = "enabled"
    /\ last.ret = "true"
    /\ logger = None
    /\ youlog # None
    /\ Unwrap(youlog).max_level = Off
    /\ Unwrap(youlog).filters = << [name |-> S_t, level |-> Info] >>

\* the directive shapes that C8 gives a meaning to (an empty directive is skipped)
WellFormedKinds == {"level", "name", "name=", "name=level", "empty"}

\* the directive shapes that are malformed: a level that is no level, a second '='
MalformedKinds == {"name=invalid", "name=level="}

\* the directive registers a filter for its name
Registers(d) == d.kind \in {"name", "name=", "name=level"}

\* the level the directive registers its name with: LEVEL, else the most verbose
Ceiling(d) == IF d.kind = "name=level" THEN d.level ELSE Trace

\* the global severity the directives ask for: that of the last bare level
ExpectedGlobal(ds) ==
    LET levels == { i \in 1..Len(ds) : ds[i].kind = "level" }
    IN  IF levels = {} THEN Trace
        ELSE ds[CHOOSE i \in levels : \A j \in levels : j <= i].level

\* the filters the directives ask for, a name's first registration standing
ExpectedFilters(ds) ==
    { [name |-> ds[i].name, level |-> Ceiling(ds[i])] :
        i \in { k \in 1..Len(ds) :
                  /\ Registers(ds[k])
                  /\ \A j \in 1..(k - 1) :
                        Registers(ds[j]) => ds[j].name # ds[k].name } }

\* C8: the directives of the value are applied left to right: a bare level
\* sets the global severity; a bare name, or NAME=, registers NAME at the most
\* verbose level; NAME=LEVEL registers NAME with ceiling LEVEL; what follows
\* the first '/' is ignored. "debug,test=info,other=debug,bleh=error" gives
\* global severity Debug and the ceilings test=Info, other=Debug, bleh=Error.
C8_DirectivesApplied ==
    (last.op = "new_with_env" /\ last.arg # None) =>
        LET ds   == Unwrap(last.arg).directives
            self == Unwrap(youlog)
        IN  /\ (\A i \in 1..Len(ds) : ds[i].kind \in WellFormedKinds)
                  => /\ self.max_level = ExpectedGlobal(ds)
                     /\ { self.filters[i] : i \in 1..Len(self.filters) }
                           = ExpectedFilters(ds)
                     /\ UniquePrefixes(self)
            /\ ds = TestEnvDirectives
                  => /\ self.max_level = Debug
                     /\ { self.filters[i] : i \in 1..Len(self.filters) }
                           = { [name |-> S_test, level |-> Info],
                               [name |-> S_other, level |-> Debug],
                               [name |-> S_bleh, level |-> Error] }

\* the value "t=DEBUG,  error  /,z=off" was parsed: t has ceiling Debug, the
\* global severity is Error and nothing is registered for z
C8_Witness ==
    /\ last.op = "new_with_env"
    /\ last.arg = Some(EnvInput(<< Dir("name=level", S_t, Debug, "upper"),
                                   Dir("level", <<>>, Error, "padded") >>, TRUE))
    /\ Unwrap(youlog).max_level = Error
    /\ Unwrap(youlog).filters = << [name |-> S_t, level |-> Debug] >>

\* the directives that are not malformed, in order
WithoutMalformed(ds) ==
    SelectSeq(ds, LAMBDA d : d.kind \notin MalformedKinds)

\* C9: a malformed directive changes neither the global severity nor the
\* filters, and the other directives of the value take effect as if it were
\* absent; an unset variable gives the default configuration.
C9_MalformedSkipped ==
    last.op = "new_with_env" =>
        IF last.arg = None
        THEN youlog = Some(New)
        ELSE LET in == Unwrap(last.arg)
             IN  youlog = Some(NewWithEnv(Some(EnvValue(
                              EnvInput(WithoutMalformed(in.directives), in.suffix)))))

\* the value "debug,t=zz, t::s= warn  " was parsed: the global severity is
\* Debug, t::s has ceiling Warn and t is not registered
C9_Witness ==
    /\ last.op = "new_with_env"
    /\ last.arg = Some(EnvInput(<< Dir("level", <<>>, Debug, "plain"),
                                   Dir("name=invalid", S_t, Trace, "plain"),
                                   Dir("name=level", S_ts, Warn, "padded") >>, FALSE))
    /\ Unwrap(youlog).max_level = Debug
    /\ Unwrap(youlog).filters = << [name |-> S_ts, level |-> Warn] >>

\* C10: enabled is monotone in the severity for every logger value, and a
\* probe changes neither logger value nor the maximum level.
C10_EnabledMonotone ==
    /\ [](\A self \in Existing, target \in Targets, s1 \in Levels, s2 \in Levels :
            (s1 <= s2 /\ Enabled(self, target, s2)) => Enabled(self, target, s1))
    /\ [][ (last'.op = "enabled" /\ EnabledCall)
              => UNCHANGED <<youlog, logger, max_level>> ]_vars

\* a probe returned true on a logger value that holds the filters o/Debug and
\* t/Info, in the order they were added
C10_Witness ==
    /\ last.op = "enabled"
    /\ last.ret = "true"
    /\ logger = None
    /\ youlog # None
    /\ Unwrap(youlog).filters
          = << [name |-> S_o, level |-> Debug], [name |-> S_t, level |-> Info] >>

====
